---- MODULE Spec2Model ----
(***************************************************************************)
(* Model of the LipSync HTTP gateway (src/main.py).                        *)
(*                                                                         *)
(* Every inbound request is a task on one event loop.  A task owns the     *)
(* loop from the moment it is started or resumed until it reaches an       *)
(* `await` or returns; `running` holds the task that owns the loop.  The   *)
(* collaborators (cloudinary.uploader and the AsyncSync client) are the    *)
(* environment: each call they receive is logged in `calls` and its        *)
(* outcome (a return value or a raised exception) is chosen freely.        *)
(***************************************************************************)
EXTENDS Integers, Sequences, FiniteSets, TLC

\* Number of requests that can be in flight at the same time.
NumReqs == 2

Reqs == 1..NumReqs
\* No task owns the loop.
NoReq == {}

Endpoints ==
  {"create_generation", "get_generation", "list_generations",
   "estimate_cost", "upload_and_generate", "read_root"}

\* ---------------------------------------------------------------- inputs
VideoUrls == {"https://x/v.mp4", "https://y/clip.mov"}
AudioUrls == {"https://x/a.mp3"}
SuppliedModels == {"lipsync-2.1-pro"}
GenerationIds == {"gen-1", "gen 2/x"}
VideoFiles == {"v.mp4"}
AudioFiles == {"a.mp3"}

\* JSON bodies of POST /generations: `model` present or absent.
JsonBodies ==
  [video_url : VideoUrls, audio_url : AudioUrls]
    \cup [video_url : VideoUrls, audio_url : AudioUrls, model : SuppliedModels]

\* Multipart forms of the two upload endpoints: `model` present or absent.
Forms ==
  [video_file : VideoFiles, audio_file : AudioFiles]
    \cup [video_file : VideoFiles, audio_file : AudioFiles, model : SuppliedModels]

\* ---------------------------------------------- collaborator behaviour
Messages == {"quota exceeded", "invalid credentials"}
UploadMessages == {"network failure", "invalid signature"}
SecureUrls == {"https://res.cloudinary.com/demo/1"}
Jobs == {"job-1", "job-2"}
JobLists == {<<>>, <<"job-1", "job-2">>}
Costs == {"cost-1"}

Nothing == [nothing |-> TRUE]
NoResponse == [status_code |-> 0]
NoLocals == [unbound |-> TRUE]

\* A Python `str | None` value: <<>> is None, <<s>> is the string s.
None == <<>>
Some(s) == <<s>>

Exception(m) == [type |-> "Exception", args |-> <<m>>]
HTTPException(status_code, detail) ==
  [type |-> "HTTPException", status_code |-> status_code, detail |-> detail]

\* Dictionaries cloudinary.uploader.upload can return: with a secure_url
\* (possibly empty) or without the key.
UploadResults ==
  {[secure_url |-> u, public_id |-> "p"] : u \in SecureUrls \cup {""}}
    \cup {[public_id |-> "p"]}

Returned(v) == [kind |-> "return", value |-> v]
Raised(e) == [kind |-> "raise", value |-> e]
Raises == {Raised(Exception(m)) : m \in Messages}

UploadOutcomes ==
  {Returned(d) : d \in UploadResults} \cup {Raised(Exception(m)) : m \in UploadMessages}
CreateOutcomes == {Returned(j) : j \in Jobs} \cup Raises
GetOutcomes == {Returned(j) : j \in Jobs} \cup Raises
ListOutcomes == {Returned(l) : l \in JobLists} \cup Raises
EstimateOutcomes == {Returned(c) : c \in Costs} \cup Raises

\* ------------------------------------------------------ pure functions
\* dict.get(key): the value, or None when the key is absent.
Get(d, key) == IF key \in DOMAIN d THEN Some(d[key]) ELSE None

\* Variant of PyNot: an `is None` test, which lets the empty string through.
PyNotNoneOnly(v) == v = None

\* Python `not v` for a `str | None` value.
PyNot(v) == v = None \/ v = Some("")

\* str(status_code) for the status codes the handlers use.
StatusText(status_code) ==
  CASE status_code = 500 -> "500"
    [] status_code = 404 -> "404"
    [] OTHER -> "?"

\* What str() of an HTTPException prints depends on the installed Starlette:
\* without a __str__ override it is str() of an exception whose args are
\* empty (the handlers pass keyword arguments only), with the override it
\* is "<status_code>: <detail>".
Builds == {"args", "status_detail"}

\* Variant of StrIn: the exception's class name instead of its text.
StrInClassName(b, e) == e.type

\* str(e) under a build.  An Exception built from one message prints as
\* that message.
StrIn(b, e) ==
  IF e.type = "HTTPException"
    THEN IF b = "args" THEN "" ELSE StatusText(e.status_code) \o ": " \o e.detail
    ELSE e.args[1]

\* class CreateGenerationRequest: model defaults to "lipsync-2".
CreateGenerationRequest(body) ==
  [video_url |-> body.video_url,
   audio_url |-> body.audio_url,
   model |-> IF "model" \in DOMAIN body THEN body.model ELSE "lipsync-2"]

\* Variant of estimate_cost_model: the form field is never read.
estimate_cost_model_ignored(form) == "lipsync-2"

\* model: str = Form("lipsync-2") of estimate_cost.
estimate_cost_model(form) ==
  IF "model" \in DOMAIN form THEN form.model ELSE "lipsync-2"

\* model: str = Form("lipsync-2") of upload_and_generate.
upload_and_generate_model(form) ==
  IF "model" \in DOMAIN form THEN form.model ELSE "lipsync-2"

Video(url) == [type |-> "Video", url |-> url]
Audio(url) == [type |-> "Audio", url |-> url]

\* `if not video_url or not audio_url` of both upload endpoints.
UploadFailed(video_url, audio_url) == PyNot(video_url) \/ PyNot(audio_url)

\* ------------------------------------------------- collaborator calls
UploadCall(file) ==
  [op |-> "upload", file |-> file, resource_type |-> "video",
   folder |-> "lipsync_uploads", outcome |-> "pending", result |-> Nothing]

CreateCall(input, model) ==
  [op |-> "create", input |-> input, model |-> model,
   outcome |-> "pending", result |-> Nothing]

EstimateCall(input, model) ==
  [op |-> "estimate_cost", input |-> input, model |-> model,
   outcome |-> "pending", result |-> Nothing]

GetCall(id) ==
  [op |-> "get", id |-> id, outcome |-> "pending", result |-> Nothing]

ListCall ==
  [op |-> "list", outcome |-> "pending", result |-> Nothing]

\* The log after the pending (last) call ended with outcome o.
Settled(cs, o) ==
  [cs EXCEPT ![Len(cs)] =
     [@ EXCEPT !.outcome = IF o.kind = "return" THEN "returned" ELSE "raised",
               !.result = o.value]]

\* ---------------------------------------------------------------- state
VARIABLES
  pc,        \* per request: "idle", "video_upload", "audio_upload", "await", "done"
  endpoint,  \* per request: the handler serving it ("none" before arrival)
  args,      \* per request: the inbound body, form or path parameters
  locals,    \* per request: the handler's local variables while it runs
  calls,     \* per request: the collaborator calls it made, in order
  response,  \* per request: the HTTP response
  running,   \* the set holding the request whose task owns the event loop, or NoReq
  build      \* the installed Starlette's HTTPException printing, fixed at start

vars == <<pc, endpoint, args, locals, calls, response, running, build>>

Str(e) == StrIn(build, e)

Init ==
  /\ pc = [r \in Reqs |-> "idle"]
  /\ endpoint = [r \in Reqs |-> "none"]
  /\ args = [r \in Reqs |-> Nothing]
  /\ locals = [r \in Reqs |-> NoLocals]
  /\ calls = [r \in Reqs |-> <<>>]
  /\ response = [r \in Reqs |-> NoResponse]
  /\ running = NoReq
  /\ build \in Builds

\* The framework starts the handler of an arriving request when the loop is free.
Arrive(r, ep, a) ==
  /\ pc[r] = "idle"
  /\ running = NoReq
  /\ endpoint' = [endpoint EXCEPT ![r] = ep]
  /\ args' = [args EXCEPT ![r] = a]

\* A suspended task is resumed when the loop is free.
Resumable(r, ep) ==
  /\ pc[r] = "await"
  /\ endpoint[r] = ep
  /\ running = NoReq

\* The handler returns or raises: its locals die and the framework, still in
\* the same turn of the loop, has the response to send.
Respond(r, resp) ==
  /\ pc' = [pc EXCEPT ![r] = "done"]
  /\ response' = [response EXCEPT ![r] = resp]
  /\ locals' = [locals EXCEPT ![r] = NoLocals]
  /\ running' = {r}
  /\ UNCHANGED build

Success(value) == [status_code |-> 200, body |-> value]
Failure(status_code, detail) == [status_code |-> status_code, detail |-> detail]

\* `await`: the call is issued, the task is suspended and the loop released.
Await(r) ==
  /\ pc' = [pc EXCEPT ![r] = "await"]
  /\ running' = NoReq
  /\ UNCHANGED build

\* ------------------------------------------------------ POST /generations
\* Variant of create_generation: the input list is built audio first.
create_generation_audio_first(r) ==
  \E body \in JsonBodies :
    LET request == CreateGenerationRequest(body)
        inputs == <<Audio(request.audio_url), Video(request.video_url)>>
    IN  /\ Arrive(r, "create_generation", body)
        /\ calls' = [calls EXCEPT ![r] = Append(@, CreateCall(inputs, request.model))]
        /\ Await(r)
        /\ UNCHANGED <<locals, response>>

create_generation(r) ==
  \E body \in JsonBodies :
    LET request == CreateGenerationRequest(body)
        inputs == <<Video(request.video_url), Audio(request.audio_url)>>
    IN  /\ Arrive(r, "create_generation", body)
        /\ calls' = [calls EXCEPT ![r] = Append(@, CreateCall(inputs, request.model))]
        /\ Await(r)
        /\ UNCHANGED <<locals, response>>

\* Variant of create_generation_resume: a failed create is tried once more.
create_generation_resume_retry(r) ==
  /\ Resumable(r, "create_generation")
  /\ \E o \in CreateOutcomes :
       IF o.kind = "return"
         THEN /\ calls' = [calls EXCEPT ![r] = Settled(@, o)]
              /\ Respond(r, Success(o.value))
         ELSE IF Len(calls[r]) < 2
           THEN /\ calls' = [calls EXCEPT ![r] =
                               Append(Settled(@, o),
                                      CreateCall(calls[r][1].input, calls[r][1].model))]
                /\ Await(r)
                /\ UNCHANGED <<locals, response>>
           ELSE /\ calls' = [calls EXCEPT ![r] = Settled(@, o)]
                /\ Respond(r, Failure(500, Str(o.value)))
  /\ UNCHANGED <<endpoint, args>>

create_generation_resume(r) ==
  /\ Resumable(r, "create_generation")
  /\ \E o \in CreateOutcomes :
       /\ calls' = [calls EXCEPT ![r] = Settled(@, o)]
       /\ IF o.kind = "return"
            THEN Respond(r, Success(o.value))
            ELSE Respond(r, Failure(500, Str(o.value)))
  /\ UNCHANGED <<endpoint, args>>

\* -------------------------------------------------- GET /generations/{id}
get_generation(r) ==
  \E id \in GenerationIds :
    /\ Arrive(r, "get_generation", [id |-> id])
    /\ calls' = [calls EXCEPT ![r] = Append(@, GetCall(id))]
    /\ Await(r)
    /\ UNCHANGED <<locals, response>>

\* Variant of get_generation_resume: the catch-all answers 500 like the others.
get_generation_resume_500(r) ==
  /\ Resumable(r, "get_generation")
  /\ \E o \in GetOutcomes :
       /\ calls' = [calls EXCEPT ![r] = Settled(@, o)]
       /\ IF o.kind = "return"
            THEN Respond(r, Success(o.value))
            ELSE Respond(r, Failure(500, Str(o.value)))
  /\ UNCHANGED <<endpoint, args>>

get_generation_resume(r) ==
  /\ Resumable(r, "get_generation")
  /\ \E o \in GetOutcomes :
       /\ calls' = [calls EXCEPT ![r] = Settled(@, o)]
       /\ IF o.kind = "return"
            THEN Respond(r, Success(o.value))
            ELSE Respond(r, Failure(404, Str(o.value)))
  /\ UNCHANGED <<endpoint, args>>

\* ------------------------------------------------------- GET /generations
list_generations(r) ==
  /\ Arrive(r, "list_generations", Nothing)
  /\ calls' = [calls EXCEPT ![r] = Append(@, ListCall)]
  /\ Await(r)
  /\ UNCHANGED <<locals, response>>

list_generations_resume(r) ==
  /\ Resumable(r, "list_generations")
  /\ \E o \in ListOutcomes :
       /\ calls' = [calls EXCEPT ![r] = Settled(@, o)]
       /\ IF o.kind = "return"
            THEN Respond(r, Success(o.value))
            ELSE Respond(r, Failure(500, Str(o.value)))
  /\ UNCHANGED <<endpoint, args>>

\* ------------------------------------------- POST /generations/estimate-cost
\* Variant of estimate_cost: the audio file is uploaded first.
estimate_cost_audio_first(r) ==
  \E form \in Forms :
    /\ Arrive(r, "estimate_cost", form)
    /\ calls' = [calls EXCEPT ![r] = Append(@, UploadCall(form.audio_file))]
    /\ locals' = [locals EXCEPT ![r] = [model |-> estimate_cost_model(form)]]
    /\ pc' = [pc EXCEPT ![r] = "video_upload"]
    /\ running' = {r}
    /\ UNCHANGED <<response, build>>

\* The handler starts and calls cloudinary.uploader.upload for the video.
\* The call is synchronous: the task keeps the loop while it is in progress.
estimate_cost(r) ==
  \E form \in Forms :
    /\ Arrive(r, "estimate_cost", form)
    /\ calls' = [calls EXCEPT ![r] = Append(@, UploadCall(form.video_file))]
    /\ locals' = [locals EXCEPT ![r] = [model |-> estimate_cost_model(form)]]
    /\ pc' = [pc EXCEPT ![r] = "video_upload"]
    /\ running' = {r}
    /\ UNCHANGED <<response, build>>

\* The video upload ends; unless it raised, the audio upload is called.
estimate_cost_video_uploaded(r) ==
  /\ pc[r] = "video_upload"
  /\ endpoint[r] = "estimate_cost"
  /\ running = {r}
  /\ \E o \in UploadOutcomes :
       IF o.kind = "raise"
         THEN /\ calls' = [calls EXCEPT ![r] = Settled(@, o)]
              /\ Respond(r, Failure(500, Str(o.value)))
         ELSE /\ calls' = [calls EXCEPT ![r] =
                             Append(Settled(@, o), UploadCall(args[r].audio_file))]
              /\ locals' = [locals EXCEPT ![r] =
                              [model |-> @.model,
                               video_url |-> Get(o.value, "secure_url")]]
              /\ pc' = [pc EXCEPT ![r] = "audio_upload"]
              /\ UNCHANGED <<response, running, build>>
  /\ UNCHANGED <<endpoint, args>>

\* The audio upload ends; the URLs are checked and the estimate is awaited.
estimate_cost_audio_uploaded(r) ==
  /\ pc[r] = "audio_upload"
  /\ endpoint[r] = "estimate_cost"
  /\ running = {r}
  /\ \E o \in UploadOutcomes :
       /\ IF o.kind = "raise"
            THEN /\ calls' = [calls EXCEPT ![r] = Settled(@, o)]
                 /\ Respond(r, Failure(500, Str(o.value)))
            ELSE LET video_url == locals[r].video_url
                     audio_url == Get(o.value, "secure_url")
                 IN  IF UploadFailed(video_url, audio_url)
                       THEN /\ calls' = [calls EXCEPT ![r] = Settled(@, o)]
                            /\ Respond(r, Failure(500, Str(HTTPException(500, "File upload to Cloudinary failed for cost estimation."))))
                       ELSE /\ calls' = [calls EXCEPT ![r] =
                                 Append(Settled(@, o),
                                        EstimateCall(<<Video(video_url[1]), Audio(audio_url[1])>>,
                                                     locals[r].model))]
                            /\ Await(r)
                            /\ UNCHANGED <<locals, response>>
  /\ UNCHANGED <<endpoint, args>>

estimate_cost_resume(r) ==
  /\ Resumable(r, "estimate_cost")
  /\ \E o \in EstimateOutcomes :
       /\ calls' = [calls EXCEPT ![r] = Settled(@, o)]
       /\ IF o.kind = "return"
            THEN Respond(r, Success(o.value))
            ELSE Respond(r, Failure(500, Str(o.value)))
  /\ UNCHANGED <<endpoint, args>>

\* ------------------------------------------------ POST /upload-and-generate
upload_and_generate(r) ==
  \E form \in Forms :
    /\ Arrive(r, "upload_and_generate", form)
    /\ calls' = [calls EXCEPT ![r] = Append(@, UploadCall(form.video_file))]
    /\ locals' = [locals EXCEPT ![r] = [model |-> upload_and_generate_model(form)]]
    /\ pc' = [pc EXCEPT ![r] = "video_upload"]
    /\ running' = {r}
    /\ UNCHANGED <<response, build>>

\* Variant of upload_and_generate_video_uploaded: the video URL is checked
\* as soon as the video upload returns.
upload_and_generate_video_checked_early(r) ==
  /\ pc[r] = "video_upload"
  /\ endpoint[r] = "upload_and_generate"
  /\ running = {r}
  /\ \E o \in UploadOutcomes :
       IF o.kind = "raise"
         THEN /\ calls' = [calls EXCEPT ![r] = Settled(@, o)]
              /\ Respond(r, Failure(500, Str(o.value)))
         ELSE IF PyNot(Get(o.value, "secure_url"))
           THEN /\ calls' = [calls EXCEPT ![r] = Settled(@, o)]
                /\ Respond(r, Failure(500, Str(HTTPException(500, "File upload to Cloudinary failed."))))
           ELSE /\ calls' = [calls EXCEPT ![r] =
                               Append(Settled(@, o), UploadCall(args[r].audio_file))]
                /\ locals' = [locals EXCEPT ![r] =
                                [model |-> @.model,
                                 video_url |-> Get(o.value, "secure_url")]]
                /\ pc' = [pc EXCEPT ![r] = "audio_upload"]
                /\ UNCHANGED <<response, running, build>>
  /\ UNCHANGED <<endpoint, args>>

upload_and_generate_video_uploaded(r) ==
  /\ pc[r] = "video_upload"
  /\ endpoint[r] = "upload_and_generate"
  /\ running = {r}
  /\ \E o \in UploadOutcomes :
       IF o.kind = "raise"
         THEN /\ calls' = [calls EXCEPT ![r] = Settled(@, o)]
              /\ Respond(r, Failure(500, Str(o.value)))
         ELSE /\ calls' = [calls EXCEPT ![r] =
                             Append(Settled(@, o), UploadCall(args[r].audio_file))]
              /\ locals' = [locals EXCEPT ![r] =
                              [model |-> @.model,
                               video_url |-> Get(o.value, "secure_url")]]
              /\ pc' = [pc EXCEPT ![r] = "audio_upload"]
              /\ UNCHANGED <<response, running, build>>
  /\ UNCHANGED <<endpoint, args>>

upload_and_generate_audio_uploaded(r) ==
  /\ pc[r] = "audio_upload"
  /\ endpoint[r] = "upload_and_generate"
  /\ running = {r}
  /\ \E o \in UploadOutcomes :
       /\ IF o.kind = "raise"
            THEN /\ calls' = [calls EXCEPT ![r] = Settled(@, o)]
                 /\ Respond(r, Failure(500, Str(o.value)))
            ELSE LET video_url == locals[r].video_url
                     audio_url == Get(o.value, "secure_url")
                 IN  IF UploadFailed(video_url, audio_url)
                       THEN /\ calls' = [calls EXCEPT ![r] = Settled(@, o)]
                            /\ Respond(r, Failure(500, Str(HTTPException(500, "File upload to Cloudinary failed."))))
                       ELSE /\ calls' = [calls EXCEPT ![r] =
                                 Append(Settled(@, o),
                                        CreateCall(<<Video(video_url[1]), Audio(audio_url[1])>>,
                                                   locals[r].model))]
                            /\ Await(r)
                            /\ UNCHANGED <<locals, response>>
  /\ UNCHANGED <<endpoint, args>>

upload_and_generate_resume(r) ==
  /\ Resumable(r, "upload_and_generate")
  /\ \E o \in CreateOutcomes :
       /\ calls' = [calls EXCEPT ![r] = Settled(@, o)]
       /\ IF o.kind = "return"
            THEN Respond(r, Success(o.value))
            ELSE Respond(r, Failure(500, Str(o.value)))
  /\ UNCHANGED <<endpoint, args>>

\* ------------------------------------------------------------------ GET /
read_root(r) ==
  /\ Arrive(r, "read_root", Nothing)
  /\ Respond(r, Success("Welcome to the LipSync API. Visit /docs for documentation."))
  /\ UNCHANGED calls

\* The framework has sent the response: the task ends, the loop is released
\* and nothing of the request is retained.
Finish(r) ==
  /\ pc[r] = "done"
  /\ running = {r}
  /\ pc' = [pc EXCEPT ![r] = "idle"]
  /\ endpoint' = [endpoint EXCEPT ![r] = "none"]
  /\ args' = [args EXCEPT ![r] = Nothing]
  /\ calls' = [calls EXCEPT ![r] = <<>>]
  /\ response' = [response EXCEPT ![r] = NoResponse]
  /\ running' = NoReq
  /\ UNCHANGED <<locals, build>>

\* Every step request r can take.
Step(r) ==
    \/ create_generation(r)
    \/ create_generation_resume(r)
    \/ get_generation(r)
    \/ get_generation_resume(r)
    \/ list_generations(r)
    \/ list_generations_resume(r)
    \/ estimate_cost(r)
    \/ estimate_cost_video_uploaded(r)
    \/ estimate_cost_audio_uploaded(r)
    \/ estimate_cost_resume(r)
    \/ upload_and_generate(r)
    \/ upload_and_generate_video_uploaded(r)
    \/ upload_and_generate_audio_uploaded(r)
    \/ upload_and_generate_resume(r)
    \/ read_root(r)
    \/ Finish(r)

Next == \E r \in Reqs : Step(r)

Spec == Init /\ [][Next]_vars

\* ------------------------------------------------------------ vocabulary
UploadEndpoints == {"estimate_cost", "upload_and_generate"}
GenerationOps == {"create", "get", "list", "estimate_cost"}

CallIdx(r) == DOMAIN calls[r]

IsUpload(r, i, file) == calls[r][i].op = "upload" /\ calls[r][i].file = file
IsVideoUpload(r, i) == IsUpload(r, i, args[r].video_file)
IsAudioUpload(r, i) == IsUpload(r, i, args[r].audio_file)

\* Call i of r is an upload that returned a result without a usable secure_url.
NoSecureUrl(r, i) ==
  /\ calls[r][i].op = "upload"
  /\ calls[r][i].outcome = "returned"
  /\ \/ "secure_url" \notin DOMAIN calls[r][i].result
     \/ calls[r][i].result.secure_url = ""

HasSecureUrl(r, i) ==
  /\ calls[r][i].op = "upload"
  /\ calls[r][i].outcome = "returned"
  /\ "secure_url" \in DOMAIN calls[r][i].result
  /\ calls[r][i].result.secure_url # ""

\* The model the inbound request asks for, by the documented default.
RequestedModel(r) ==
  IF "model" \in DOMAIN args[r] THEN args[r].model ELSE "lipsync-2"

ExplicitDetail(ep) ==
  IF ep = "estimate_cost"
    THEN "File upload to Cloudinary failed for cost estimation."
    ELSE "File upload to Cloudinary failed."

\* ---------------------------------------------------------------- claims

\* C1: in both multipart endpoints, a request in which an upload returned a
\* result with a missing or empty secure_url never calls the Generation
\* Client, and its response is a 500 failure.
C1_NoUrlFailsWithoutGeneration ==
  \A r \in Reqs :
    (endpoint[r] \in UploadEndpoints /\ \E i \in CallIdx(r) : NoSecureUrl(r, i))
      => /\ \A j \in CallIdx(r) : calls[r][j].op \notin GenerationOps
         /\ pc[r] = "done" => response[r].status_code = 500

C1_Witness ==
  \E r \in Reqs :
    /\ endpoint[r] = "upload_and_generate"
    /\ pc[r] = "done"
    /\ Len(calls[r]) = 2
    /\ HasSecureUrl(r, 1)
    /\ calls[r][2].outcome = "returned"
    /\ calls[r][2].result = [secure_url |-> "", public_id |-> "p"]
    /\ response[r].status_code = 500

\* C2: within a request to a multipart endpoint, an audio upload is only ever
\* started after the video upload of the same request was made and returned,
\* whatever the other requests do.
C2_VideoUploadBeforeAudio ==
  \A r \in Reqs :
    endpoint[r] \in UploadEndpoints =>
      \A i \in CallIdx(r) :
        IsAudioUpload(r, i) =>
          \E j \in CallIdx(r) :
            j < i /\ IsVideoUpload(r, j) /\ calls[r][j].outcome = "returned"

C2_Witness ==
  \E r, q \in Reqs :
    /\ r # q
    /\ endpoint[r] = "estimate_cost"
    /\ pc[r] = "audio_upload"
    /\ IsVideoUpload(r, 1)
    /\ IsAudioUpload(r, 2)
    /\ calls[r][2].outcome = "pending"
    /\ endpoint[q] = "upload_and_generate"
    /\ pc[q] = "await"

\* C3: GET /generations/{id} calls get with the path segment as given; if
\* get raises the response is a 404 failure, if it returns the response is
\* the returned job record.
C3_GetPassesIdAndMapsTo404 ==
  \A r \in Reqs :
    endpoint[r] = "get_generation" =>
      /\ Len(calls[r]) = 1
      /\ calls[r][1].op = "get"
      /\ calls[r][1].id = args[r].id
      /\ calls[r][1].outcome = "raised" =>
           pc[r] = "done" /\ response[r].status_code = 404
      /\ calls[r][1].outcome = "returned" =>
           /\ pc[r] = "done"
           /\ response[r] = [status_code |-> 200, body |-> calls[r][1].result]

C3_Witness ==
  \E r \in Reqs :
    /\ endpoint[r] = "get_generation"
    /\ args[r].id = "gen 2/x"
    /\ pc[r] = "done"
    /\ calls[r][1].outcome = "raised"
    /\ response[r].status_code = 404

\* C4: in POST /generations, GET /generations, POST /generations/estimate-cost
\* and POST /upload-and-generate, a collaborator call that raises an
\* exception with message m ends the request with a 500 failure whose detail
\* is exactly m.
C4_CollaboratorErrorIs500WithMessage ==
  \A r \in Reqs :
    endpoint[r] \in {"create_generation", "list_generations",
                     "estimate_cost", "upload_and_generate"} =>
      \A i \in CallIdx(r) :
        calls[r][i].outcome = "raised" =>
          /\ pc[r] = "done"
          /\ response[r] =
               [status_code |-> 500, detail |-> calls[r][i].result.args[1]]

C4_Witness ==
  \E r \in Reqs :
    /\ endpoint[r] = "create_generation"
    /\ pc[r] = "done"
    /\ calls[r][1].outcome = "raised"
    /\ calls[r][1].result = Exception("quota exceeded")
    /\ response[r] = [status_code |-> 500, detail |-> "quota exceeded"]

\* C5: POST /generations calls create once with the two-element list (video
\* descriptor of video_url, audio descriptor of audio_url) and the request's
\* model; when create returns, the response is create's return value.
C5_CreateInputOrderAndEcho ==
  \A r \in Reqs :
    endpoint[r] = "create_generation" =>
      /\ Len(calls[r]) = 1
      /\ calls[r][1].op = "create"
      /\ calls[r][1].input =
           <<[type |-> "Video", url |-> args[r].video_url],
             [type |-> "Audio", url |-> args[r].audio_url]>>
      /\ calls[r][1].model = RequestedModel(r)
      /\ calls[r][1].outcome = "returned" =>
           /\ pc[r] = "done"
           /\ response[r] = [status_code |-> 200, body |-> calls[r][1].result]

C5_Witness ==
  \E r \in Reqs :
    /\ endpoint[r] = "create_generation"
    /\ args[r].video_url = "https://y/clip.mov"
    /\ pc[r] = "done"
    /\ calls[r][1].outcome = "returned"
    /\ response[r] = [status_code |-> 200, body |-> "job-2"]

\* C6: in the three operations that take a model, the model passed to the
\* Generation Client is "lipsync-2" when the field is omitted and the
\* supplied value when it is supplied.
C6_ModelDefault ==
  \A r \in Reqs :
    endpoint[r] \in {"create_generation", "estimate_cost", "upload_and_generate"} =>
      \A i \in CallIdx(r) :
        calls[r][i].op \in {"create", "estimate_cost"} =>
          calls[r][i].model =
            IF "model" \in DOMAIN args[r] THEN args[r].model ELSE "lipsync-2"

C6_Witness ==
  \E r, q \in Reqs :
    /\ endpoint[r] = "estimate_cost"
    /\ "model" \in DOMAIN args[r]
    /\ Len(calls[r]) = 3
    /\ calls[r][3].model = "lipsync-2.1-pro"
    /\ endpoint[q] = "upload_and_generate"
    /\ "model" \notin DOMAIN args[q]
    /\ Len(calls[q]) = 3
    /\ calls[q][3].model = "lipsync-2"

\* C7: no retry.  In a request every collaborator operation is invoked at
\* most once (upload once per file), a call that raised is the last call of
\* the request, and a success response means every call made returned.
SameOperation(c, d) ==
  /\ c.op = d.op
  /\ c.op = "upload" => c.file = d.file

C7_NoRetry ==
  \A r \in Reqs :
    /\ \A i, j \in CallIdx(r) : i # j => ~SameOperation(calls[r][i], calls[r][j])
    /\ \A i \in CallIdx(r) : calls[r][i].outcome = "raised" => i = Len(calls[r])
    /\ (pc[r] = "done" /\ response[r].status_code = 200) =>
         \A i \in CallIdx(r) : calls[r][i].outcome = "returned"

C7_Witness ==
  \E r, q \in Reqs :
    /\ endpoint[r] = "upload_and_generate"
    /\ pc[r] = "done"
    /\ Len(calls[r]) = 3
    /\ calls[r][3].outcome = "raised"
    /\ endpoint[q] = "list_generations"
    /\ pc[q] = "await"

\* C8: a handler is suspended at every collaborator call, uploads included:
\* while a request waits on an upload or on a Generation Client call, every
\* other request can take its next step.
Waiting(r) == pc[r] \in {"video_upload", "audio_upload", "await"}

C8_SuspendsAtEveryCollaboratorCall ==
  \A r, q \in Reqs : (r # q /\ Waiting(r)) => ENABLED Step(q)

\* C9: when an upload yields no URL, the failure response carries the detail
\* text raised at the check.
C9_ExplicitDetailReachesCaller ==
  \A r \in Reqs :
    ( /\ endpoint[r] \in UploadEndpoints
      /\ pc[r] = "done"
      /\ \A i \in CallIdx(r) : calls[r][i].outcome = "returned"
      /\ \E i \in CallIdx(r) : NoSecureUrl(r, i) )
      => response[r].detail = ExplicitDetail(endpoint[r])

\* C10: in both multipart endpoints, a video upload that returns a result
\* without secure_url is followed by exactly one audio upload before the
\* request fails with 500, and a video upload that raises is followed by no
\* audio upload.
C10_CheckAfterBothUploads ==
  \A r \in Reqs :
    endpoint[r] \in UploadEndpoints =>
      /\ NoSecureUrl(r, 1) =>
           /\ Cardinality({i \in CallIdx(r) : IsAudioUpload(r, i)}) = 1
           /\ IsAudioUpload(r, 2)
           /\ pc[r] = "done" => response[r].status_code = 500
      /\ calls[r][1].outcome = "raised" =>
           /\ {i \in CallIdx(r) : IsAudioUpload(r, i)} = {}
           /\ pc[r] = "done"

C10_Witness ==
  \E r \in Reqs :
    /\ endpoint[r] = "estimate_cost"
    /\ pc[r] = "done"
    /\ IsVideoUpload(r, 1)
    /\ NoSecureUrl(r, 1)
    /\ "secure_url" \notin DOMAIN calls[r][1].result
    /\ Len(calls[r]) = 2
    /\ HasSecureUrl(r, 2)
    /\ response[r].status_code = 500
====
